---- MODULE Spec2Model ----
(***************************************************************************)
(* nrvna-ai: the workspace directory is the job queue.  A job is a         *)
(* directory <id>/ that moves between input/writing, input/ready,          *)
(* processing, output and failed by rename.  The model holds the           *)
(* workspace, the client threads inside Work::submit, the daemon's         *)
(* scanner thread (Server::scanLoop), the Pool queue and its worker        *)
(* threads inside Processor::process, the main thread inside               *)
(* Server::start / Server::shutdown, and a reader inside Flow::status /    *)
(* Flow::get.                                                              *)
(***************************************************************************)
EXTENDS Integers, Sequences, FiniteSets, TLC

\* ------------------------------------------------------------------ bounds
\* Ids generated by Work::generateId (submit calls that pass validation).
MaxJobs == 1
\* Pool::workers_ (W worker threads).
NumWorkers == 2
\* Client threads calling Work::submit concurrently.
NumClients == 2
\* Cap on the (unbounded) Pool::jobQueue_.
MaxQueue == 2
\* File-system operations that fail during one run, on each side.
MaxIoFaults == 1
\* Work::maxBytes_, scaled down (bytes of a prompt).
MaxBytes == 2
\* Client processes (each has its own Work::generateId counter).
NumProcs == 2
\* Submit calls in a run of clients without a daemon.
MaxSubmits == 2
\* How many of them validation may reject.
MaxRejects == 1
\* Runner constructions that fail during Server::start.
MaxRunnerFaults == 1
\* ------------------------------------------------------------------ data
Locations == {"writing", "ready", "processing", "output", "failed"}

NoFile == [exists |-> FALSE, bytes |-> <<>>]

FileOf(b) == [exists |-> TRUE, bytes |-> b]

\* A job directory that was just created by create_directories.
EmptyDir ==
  [prompt |-> NoFile, type |-> NoFile, images |-> 0,
   tmp |-> NoFile, result |-> NoFile, error |-> NoFile]

RECURSIVE Rep(_, _)
Rep(c, n) == IF n = 0 THEN <<>> ELSE <<c>> \o Rep(c, n - 1)

\* Prompts a client passes: empty, the largest accepted, one byte too long.
Prompts == {Rep("p", 0), Rep("p", MaxBytes), Rep("p", MaxBytes + 1)}

\* What the path of an attachment may point to: a supported image, nothing,
\* a directory, a file without or with an unsupported extension, a file
\* whose size cannot be read, a file over NRVNA_MAX_IMAGE_SIZE.
ImageKinds ==
  {"ok", "missing", "not_file", "no_ext", "bad_ext", "unreadable", "too_large"}

\* The two submit overloads: (prompt, type) with JobType Text or Embed, and
\* (prompt, imagePaths), which submits a Vision job.
SubmitInputs ==
  [prompt : Prompts, type : {"text", "embed"}, images : {0}, img : {"none"}]
  \cup [prompt : Prompts, type : {"vision"}, images : {1}, img : ImageKinds]

\* The texts a model generates for a prompt when nothing goes wrong.
Outputs == {<<"a">>, <<"a", "\n">>, <<>>}

\* What can happen inside Runner::runText: the generation runs to its end
\* ("eog": end-of-generation token or token limit), llama_decode fails in the
\* generation loop ("decode"), the model, tokenizer, context or encoder
\* fails before the loop ("setup"), or something is thrown that runText does
\* not catch ("throw").
BackendEvents == {"eog", "decode", "setup", "throw"}

\* What the model has generated when event ev happens in a run whose full
\* text would be out: in the generation loop a failing llama_decode breaks
\* out of the loop with the pieces appended so far.
Generated(ev, out) ==
  CASE ev = "eog" -> {out}
    [] ev = "decode" -> {SubSeq(out, 1, n) : n \in 0..(Len(out) - 1)}
    [] OTHER -> {}

\* Runner::run -> Runner::runText: {true, output, ""} after the generation
\* loop, however the loop was left; {false, "", error} for a failure before
\* the loop; an exception that is not a std::exception leaves the call.
runText(ev, text) ==
  CASE ev \in {"eog", "decode"} -> [kind |-> "ok", text |-> text, ev |-> ev]
    [] ev = "setup" -> [kind |-> "fail", text |-> <<"e">>, ev |-> ev]
    [] OTHER -> [kind |-> "throw", text |-> <<"x">>, ev |-> ev]

\* What Runner::run hands back: text, an error, or an exception.
RunResults ==
  {runText(ev, <<>>) : ev \in {"setup", "throw"}}
  \cup UNION {{runText(ev, t) : t \in Generated(ev, out)} :
                ev \in {"eog", "decode"}, out \in Outputs}

NoRun == [kind |-> "none", text |-> <<>>, ev |-> "none"]

\* Proper prefixes of b: what a failed write may leave in the file.
Prefixes(b) == {SubSeq(b, 1, n) : n \in 0..(Len(b) - 1)}

\* What a failed stream write leaves behind (nothing when b is empty).
PartialOf(b) == IF b = <<>> THEN {<<>>} ELSE Prefixes(b)

Put(dirs, id, d) ==
  [x \in (DOMAIN dirs) \cup {id} |-> IF x = id THEN d ELSE dirs[x]]

Del(dirs, id) == [x \in (DOMAIN dirs) \ {id} |-> dirs[x]]

\* std::filesystem::rename of a job directory succeeds when the source exists
\* and the destination is not an existing (non-empty) directory.
CanRename(f, from, to, id) == id \in DOMAIN f[from] /\ id \notin DOMAIN f[to]

Rename(f, from, to, id) ==
  [f EXCEPT ![from] = Del(@, id), ![to] = Put(@, id, f[from][id])]

\* ------------------------------------------------------------------ state
VARIABLES
  fs,        \* the workspace: location -> (id -> directory contents)
  counter,   \* Work::generateId's static atomic counter, per process
  pidOf,     \* getpid() of the process each client thread runs in
  maxBytes,  \* Work::maxBytes_ of each client's Work object
  client,    \* client threads inside Work::submit
  srv,       \* Server: main-thread position, running_, shutdown_
  pool,      \* Pool: running_, shutdown_, jobQueue_
  runners,   \* Processor::runners_ (worker ids with a Runner)
  workerId,  \* the workerId argument each worker thread was started with
  app,       \* threads that use a Pool directly: one inside Pool::submit,
             \* one inside Pool::stop
  vis,       \* Runner::runVision: the holder of vision_encoding_mutex_, each
             \* worker's position in the call and what its last call returned
  scan,      \* the scanner thread inside Server::scanLoop
  wk,        \* worker threads inside Pool::workerLoop / Processor::process
  rd,        \* the reader inside Flow::status / Flow::get
  budget,    \* what may still happen in this run: failing file-system
             \* operations per side, submit calls, rejected ones among them,
             \* failing Runner constructions
  asked,     \* history: the input of the submit call that generated each id
  okIds,     \* history: ids for which Work::submit returned ok
  last,      \* history: the submit call that returned last (size limit of
             \* its Work object, input, generated id, SubmitResult)
  claims,    \* history: successful claim renames per id
  calls,     \* history: Runner::run invocations per id
  returned,  \* history: what Runner::run returned per id
  errLost,   \* history: ids whose error.txt could not be written in full
  seen       \* history: the furthest state Flow::status has returned per id

vars ==
  <<fs, counter, pidOf, maxBytes, client, srv, pool, runners, workerId, app, vis,
    scan, wk, rd, budget,
    asked, okIds, last, claims, calls, returned, errLost, seen>>

JobIds == 0..(MaxJobs - 1)

Pids == 0..(NumProcs - 1)

\* Ids of one process are told apart by the counter; the counter stays
\* below IdStride.
IdStride == MaxJobs + MaxSubmits

\* Work::generateId: "<microseconds>_<pid>_<counter>", for a clock that
\* reads the same at every call (ids are compared as pid, then counter).
GenId(p, n) == p * IdStride + n

\* The id of a directory that was in the workspace before this run (written
\* by a process that is gone).
OldId == GenId(NumProcs, 0)

\* The empty JobId "" of a SubmitResult that carries no id.
NoId == GenId(NumProcs, 1)

AllIds == {GenId(p, n) : p \in Pids, n \in 0..(IdStride - 1)} \cup {OldId}

WorkerIds == 0..(NumWorkers - 1)

ClientIds == 1..NumClients

\* Outcomes of one fallible file-system operation made by side ("submit":
\* a client inside Work::submit, "daemon": a worker): TRUE is success.
IoOutcomes(side) == IF budget[side] > 0 THEN {TRUE, FALSE} ELSE {TRUE}

Charge(side, ok) == IF ok THEN budget ELSE [budget EXCEPT ![side] = @ - 1]

\* SubmitResult {ok, id, error}; the message is left out.
NoRes == [ok |-> FALSE, id |-> NoId, err |-> "None"]

NoInput == [prompt |-> <<>>, type |-> "none", images |-> 0, img |-> "none"]

IdleClient == [pc |-> "idle", id |-> NoId, in |-> NoInput]

\* No submit call has returned yet.
NoReturn == [max |-> 0, in |-> NoInput, id |-> NoId, res |-> NoRes]

IdleWorker(p) == [pc |-> p, job |-> 0, prompt |-> <<>>, run |-> NoRun,
                  msg |-> <<>>, res |-> "none"]

IdleReader == [pc |-> "idle", op |-> "none", id |-> 0, k |-> 1, st |-> "none",
               found |-> FALSE, content |-> <<>>]

\* The workspace skeleton with no job directory in it.
EmptyWorkspace == [l \in Locations |-> <<>>]

Budget(bs, bd, n, r, rf) ==
  [submit |-> bs, daemon |-> bd, calls |-> n, rejects |-> r, runner |-> rf]

\* Nothing has been recorded.
InitHistory ==
  /\ asked = [i \in AllIds |-> NoInput]
  /\ okIds = {}
  /\ last = NoReturn
  /\ claims = [i \in AllIds |-> 0]
  /\ calls = [i \in AllIds |-> 0]
  /\ returned = [i \in AllIds |-> NoRun]
  /\ errLost = {}
  /\ seen = [i \in AllIds |-> "none"]

\* No thread uses the Pool directly.
NoApp == [sub |-> "idle", stop |-> "idle"]

\* No worker is inside Runner::runVision and vision_encoding_mutex_ is free.
NoVision ==
  [holder |-> {}, pc |-> [w \in WorkerIds |-> "idle"],
   res |-> [w \in WorkerIds |-> "none"]]

\* Work and Flow constructed on workspace f, with the client threads in the
\* processes procs, in a run bounded by b, and nothing recorded yet.
InitClients(f, procs, b) ==
  /\ fs = f
  /\ counter = [p \in Pids |-> 0]
  /\ pidOf = procs
  /\ maxBytes = [c \in ClientIds |-> MaxBytes]
  /\ client = [c \in ClientIds |-> IdleClient]
  /\ rd = IdleReader
  /\ budget = b
  /\ vis = NoVision
  /\ InitHistory

\* The state after construction of Work, Flow and Server on workspace f,
\* with the client threads in the processes procs, in a run bounded by b.
InitFull(f, procs, b) ==
  /\ InitClients(f, procs, b)
  /\ srv = [pc |-> "constructed", running |-> FALSE, shutdown |-> FALSE]
  /\ pool = [running |-> FALSE, shutdown |-> FALSE, queue |-> <<>>]
  /\ runners = {}
  /\ workerId = [t \in WorkerIds |-> 0]
  /\ app = NoApp
  /\ scan = [pc |-> "unstarted", todo |-> {}, jobs |-> <<>>]
  /\ wk = [w \in WorkerIds |-> IdleWorker("unstarted")]

\* The same with every client thread in one process, in a run in which bs
\* file-system operations of the clients and bd of the daemon may fail.
InitOn(f, bs, bd) ==
  InitFull(f, [c \in ClientIds |-> 0], Budget(bs, bd, MaxJobs, 0, 0))

\* The same on an empty workspace.
InitWith(bs, bd) == InitOn(EmptyWorkspace, bs, bd)

Init == InitWith(MaxIoFaults, MaxIoFaults)

\* ============================================================ Work::submit
\* A faulty Work::isValidPrompt: a prompt of exactly the limit is refused.
isValidPromptBelow(prompt, max) == prompt # <<>> /\ Len(prompt) < max

\* Work::isValidPrompt, max being maxBytes_.
isValidPrompt(prompt, max) == prompt # <<>> /\ Len(prompt) <= max

\* validateImagePath: the error code, "None" for an image that passes.
validateImagePath(img) ==
  CASE img \in {"missing", "not_file", "no_ext", "bad_ext"} -> "InvalidContent"
    [] img = "unreadable" -> "IoError"
    [] img = "too_large" -> "InvalidSize"
    [] OTHER -> "None"

\* A faulty validation: the attachments are not looked at.
SubmitRejectionNoImages(in, max) ==
  IF ~isValidPrompt(in.prompt, max)
    THEN (IF in.prompt = <<>> THEN "InvalidContent" ELSE "InvalidSize")
    ELSE "None"

\* The error code with which validation rejects a call, "None" when the
\* call is accepted.
SubmitRejection(in, max) ==
  IF ~isValidPrompt(in.prompt, max)
    THEN (IF in.prompt = <<>> THEN "InvalidContent" ELSE "InvalidSize")
    ELSE IF in.images > 0 THEN validateImagePath(in.img) ELSE "None"

\* A faulty generateId: the increment of the counter is lost.
fetchAddLost(n) == n

\* counter.fetch_add(1): the value of the counter after the call.
fetchAdd(n) == n + 1

\* A faulty submit: the job is published as soon as prompt.txt is created.
SubmitNextStepEarly(pc, in) ==
  CASE pc = "mkdir" -> "prompt_open"
    [] pc = "prompt_open" -> "publish"
    [] OTHER -> "idle"

\* The step of submit that follows step pc when pc succeeded.
SubmitNextStep(pc, in) ==
  CASE pc = "mkdir" -> "prompt_open"
    [] pc = "prompt_open" -> "prompt_write"
    [] pc = "prompt_write" ->
         IF in.images > 0 THEN "images"
         ELSE IF in.type # "text" THEN "type" ELSE "publish"
    [] pc = "images" -> "type"
    [] pc = "type" -> "publish"
    [] OTHER -> "idle"

Others ==
  <<srv, pool, runners, workerId, app, vis, scan, wk, rd, claims, calls, returned,
    errLost, seen>>

WorkVars == <<pidOf, maxBytes>>

\* Client c's call, made with input in and generated id, returns res.
Returned(c, in, id, res) == [max |-> maxBytes[c], in |-> in, id |-> id, res |-> res]

\* submit() returns {false, "", code, message}.
ReturnError(c, code) ==
  Returned(c, client[c].in, client[c].id, [ok |-> FALSE, id |-> NoId, err |-> code])

\* submit() returns {true, id, None, ""}.
ReturnOk(c) ==
  Returned(c, client[c].in, client[c].id,
           [ok |-> TRUE, id |-> client[c].id, err |-> "None"])

\* submit(): validation (a rejected call returns at once) and generateId().
SubmitCall(c) ==
  /\ client[c].pc = "idle"
  /\ \E in \in SubmitInputs :
       LET rej == SubmitRejection(in, maxBytes[c])
           p == pidOf[c]
           id == GenId(p, counter[p])
       IN IF rej # "None"
            THEN /\ budget.rejects > 0 /\ budget.calls > 0
                 /\ budget' = [budget EXCEPT !.rejects = @ - 1, !.calls = @ - 1]
                 /\ last' = [ReturnError(c, rej) EXCEPT !.in = in]
                 /\ UNCHANGED <<client, counter, asked>>
            ELSE /\ budget.calls > 0
                 /\ budget' = [budget EXCEPT !.calls = @ - 1]
                 /\ client' = [client EXCEPT ![c] =
                      [pc |-> "mkdir", id |-> id, in |-> in]]
                 /\ UNCHANGED last
                 /\ counter' = [counter EXCEPT ![p] = fetchAdd(@)]
                 /\ asked' = [asked EXCEPT ![id] = in]
  /\ UNCHANGED <<fs, okIds>>
  /\ UNCHANGED <<WorkVars, Others>>

\* A step of submit failed: submit goes on to cleanupFailedJob when the job
\* directory was already created, and returns IoError at once when not.
SubmitFail(c, cleanup) ==
  IF cleanup THEN [client[c] EXCEPT !.pc = "cleanup"] ELSE IdleClient

\* The call that has returned last, after a step by c that leaves c in cl.
LastAfter(c, cl) ==
  IF cl.pc = "idle" THEN ReturnError(c, "IoError") ELSE last

SubmitAdvance(c) ==
  [client[c] EXCEPT !.pc = SubmitNextStep(client[c].pc, client[c].in)]

\* createJobDirectory
SubmitMkdir(c) ==
  /\ client[c].pc = "mkdir"
  /\ \E ok \in IoOutcomes("submit") :
       /\ budget' = Charge("submit", ok)
       /\ IF ok
            THEN /\ fs' = [fs EXCEPT !["writing"] = Put(@, client[c].id, EmptyDir)]
                 /\ client' = [client EXCEPT ![c] = SubmitAdvance(c)]
            ELSE /\ UNCHANGED fs
                 /\ client' = [client EXCEPT ![c] = SubmitFail(c, FALSE)]
  /\ last' = LastAfter(c, client'[c])
  /\ UNCHANGED <<counter, asked, okIds>>
  /\ UNCHANGED <<WorkVars, Others>>

\* A write into the job directory under input/writing (it is addressed by
\* that path, so it fails when the directory is not there).
InWriting(c) == client[c].id \in DOMAIN fs["writing"]

\* writePromptFile: std::ofstream opens (creates, truncates) prompt.txt.
SubmitPromptOpen(c) ==
  /\ client[c].pc = "prompt_open"
  /\ \E io \in IoOutcomes("submit") :
       LET ok == io /\ InWriting(c) IN
       /\ budget' = Charge("submit", io)
       /\ IF ok
            THEN /\ fs' = [fs EXCEPT !["writing"][client[c].id].prompt = FileOf(<<>>)]
                 /\ client' = [client EXCEPT ![c] = SubmitAdvance(c)]
            ELSE /\ UNCHANGED fs
                 /\ client' = [client EXCEPT ![c] = SubmitFail(c, TRUE)]
  /\ last' = LastAfter(c, client'[c])
  /\ UNCHANGED <<counter, asked, okIds>>
  /\ UNCHANGED <<WorkVars, Others>>

\* writePromptFile: file << prompt; flush; close; return file.good().
SubmitPromptWrite(c) ==
  /\ client[c].pc = "prompt_write"
  /\ \E io \in IoOutcomes("submit") :
       LET ok == io /\ InWriting(c) IN
       /\ budget' = Charge("submit", io)
       /\ IF ok
            THEN /\ fs' = [fs EXCEPT !["writing"][client[c].id].prompt =
                                       FileOf(client[c].in.prompt)]
                 /\ client' = [client EXCEPT ![c] = SubmitAdvance(c)]
            ELSE /\ \E part \in PartialOf(client[c].in.prompt) :
                      fs' = IF InWriting(c)
                              THEN [fs EXCEPT !["writing"][client[c].id].prompt =
                                                FileOf(part)]
                              ELSE fs
                 /\ client' = [client EXCEPT ![c] = SubmitFail(c, TRUE)]
  /\ last' = LastAfter(c, client'[c])
  /\ UNCHANGED <<counter, asked, okIds>>
  /\ UNCHANGED <<WorkVars, Others>>

\* writeImageFiles: images/image_<idx><ext> as a symlink or a copy; it fails
\* too when the image has disappeared since validation.
SubmitImages(c) ==
  /\ client[c].pc = "images"
  /\ \E io \in IoOutcomes("submit") :
       LET ok == io /\ InWriting(c) IN
       /\ budget' = Charge("submit", io)
       /\ IF ok
            THEN /\ fs' = [fs EXCEPT !["writing"][client[c].id].images =
                                       client[c].in.images]
                 /\ client' = [client EXCEPT ![c] = SubmitAdvance(c)]
            ELSE /\ UNCHANGED fs
                 /\ client' = [client EXCEPT ![c] = SubmitFail(c, TRUE)]
  /\ last' = LastAfter(c, client'[c])
  /\ UNCHANGED <<counter, asked, okIds>>
  /\ UNCHANGED <<WorkVars, Others>>

\* writeTypeFile: the literal lowercase type name; a failure leaves no
\* type.txt (open failed) or an empty one (write failed).
SubmitType(c) ==
  /\ client[c].pc = "type"
  /\ \E io \in IoOutcomes("submit") :
       LET ok == io /\ InWriting(c) IN
       /\ budget' = Charge("submit", io)
       /\ IF ok
            THEN /\ fs' = [fs EXCEPT !["writing"][client[c].id].type =
                                       FileOf(<<client[c].in.type>>)]
                 /\ client' = [client EXCEPT ![c] = SubmitAdvance(c)]
            ELSE /\ \E left \in {NoFile, FileOf(<<>>)} :
                      fs' = IF InWriting(c)
                              THEN [fs EXCEPT !["writing"][client[c].id].type = left]
                              ELSE fs
                 /\ client' = [client EXCEPT ![c] = SubmitFail(c, TRUE)]
  /\ last' = LastAfter(c, client'[c])
  /\ UNCHANGED <<counter, asked, okIds>>
  /\ UNCHANGED <<WorkVars, Others>>

\* A faulty atomicPublish: the directory is copied into input/ready and the
\* staging copy is left behind.
atomicPublishCopy(f, id) ==
  IF CanRename(f, "writing", "ready", id)
    THEN [f EXCEPT !["ready"] = Put(@, id, f["writing"][id])]
    ELSE f

\* Work::atomicPublish: the workspace after
\* rename(input/writing/<id>, input/ready/<id>); unchanged when it fails.
atomicPublish(f, id) ==
  IF CanRename(f, "writing", "ready", id)
    THEN Rename(f, "writing", "ready", id)
    ELSE f

\* The publishing rename, the last step of submit, which then returns
\* {true, id, None, ""}.
SubmitPublish(c) ==
  /\ client[c].pc = "publish"
  /\ \E io \in IoOutcomes("submit") :
       LET ok == io /\ atomicPublish(fs, client[c].id) # fs IN
       /\ budget' = Charge("submit", io)
       /\ IF ok
            THEN /\ fs' = atomicPublish(fs, client[c].id)
                 /\ client' = [client EXCEPT ![c] = IdleClient]
                 /\ okIds' = okIds \cup {client[c].id}
                 /\ last' = ReturnOk(c)
            ELSE /\ UNCHANGED <<fs, okIds>>
                 /\ client' = [client EXCEPT ![c] = SubmitFail(c, TRUE)]
                 /\ last' = LastAfter(c, client'[c])
  /\ UNCHANGED <<counter, asked>>
  /\ UNCHANGED <<WorkVars, Others>>

\* cleanupFailedJob: remove_all(input/writing/<id>, ec); the error code is
\* dropped, so submit returns IoError whether the directory went or not.
SubmitCleanup(c) ==
  /\ client[c].pc = "cleanup"
  /\ \E ok \in IoOutcomes("submit") :
       /\ budget' = Charge("submit", ok)
       /\ fs' = IF ok THEN [fs EXCEPT !["writing"] = Del(@, client[c].id)] ELSE fs
  /\ client' = [client EXCEPT ![c] = IdleClient]
  /\ last' = ReturnError(c, "IoError")
  /\ UNCHANGED <<counter, asked, okIds>>
  /\ UNCHANGED <<WorkVars, Others>>

Submit(c) ==
  \/ SubmitCall(c)
  \/ SubmitMkdir(c)
  \/ SubmitPromptOpen(c)
  \/ SubmitPromptWrite(c)
  \/ SubmitImages(c)
  \/ SubmitType(c)
  \/ SubmitPublish(c)
  \/ SubmitCleanup(c)

\* Work::setMaxSize, called by the thread that owns the Work object.
SizeLimits == 1..(MaxBytes + 1)

SetMaxSize(c) ==
  /\ client[c].pc = "idle"
  /\ \E m \in SizeLimits : maxBytes' = [maxBytes EXCEPT ![c] = m]
  /\ UNCHANGED <<fs, counter, pidOf, client, budget, asked, okIds, last>>
  /\ UNCHANGED Others

\* ================================================= Server::start / shutdown
ClientVars == <<counter, pidOf, maxBytes, client, asked, okIds, last, app, vis>>

ReaderVars == <<rd, seen>>

ProcVars == <<claims, calls, returned, errLost>>

\* A faulty Server::start: a failure of initializeRunners is ignored.
AfterInitIgnore(ok) == "runners_ready"

\* Server::start after initializeRunners returned ok: on to Pool::start, or
\* return false.
AfterInit(ok) == IF ok THEN "runners_ready" ELSE "start_failed"

\* Server::start, first part: createWorkspace, then
\* Processor::initializeRunners(workers_) on the calling thread.  When the
\* constructor of Runner k throws, the Runners 0..k-1 stay in the map and
\* initializeRunners returns false.
ServerInitRunners ==
  /\ srv.pc = "constructed"
  /\ ~srv.running
  /\ \E ok \in (IF budget.runner > 0 THEN {TRUE, FALSE} ELSE {TRUE}) :
       /\ budget' = IF ok THEN budget ELSE [budget EXCEPT !.runner = @ - 1]
       /\ IF ok THEN runners' = WorkerIds
          ELSE \E k \in WorkerIds : runners' = 0..(k - 1)
       /\ srv' = [srv EXCEPT !.pc = AfterInit(ok)]
  /\ UNCHANGED <<fs, pool, scan, wk, workerId>>
  /\ UNCHANGED <<ClientVars, ReaderVars, ProcVars>>

\* A faulty Pool::start: every thread is started with worker id 0.
WorkerIdShared(t) == 0

\* Pool::start: the t-th thread runs workerLoop(t).
WorkerIdOf(t) == t

\* Server::start, second part: Pool::start (running_, shutdown_, W worker
\* threads), running_ = true, then the scanner thread.
ServerStart ==
  /\ srv.pc = "runners_ready"
  /\ pool' = [pool EXCEPT !.running = TRUE, !.shutdown = FALSE]
  /\ wk' = [w \in WorkerIds |-> IdleWorker("wait")]
  /\ workerId' = [t \in WorkerIds |-> WorkerIdOf(t)]
  /\ srv' = [srv EXCEPT !.pc = "running", !.running = TRUE]
  /\ scan' = [scan EXCEPT !.pc = "loop"]
  /\ UNCHANGED <<fs, budget, runners>>
  /\ UNCHANGED <<ClientVars, ReaderVars, ProcVars>>

\* A faulty Server::shutdown: the components are reset before the threads
\* are stopped.
ShutdownAfterResetFirst(pc) ==
  CASE pc = "running" -> "reset"
    [] pc = "reset" -> "join_scanner"
    [] pc = "join_scanner" -> "join_workers"
    [] OTHER -> "stopped"

\* The order of Server::shutdown: flags, scannerThread_.join(), pool_->stop()
\* (signal, then join), reset of processor_, pool_ and scanner_, return.
ShutdownAfter(pc) ==
  CASE pc = "running" -> "join_scanner"
    [] pc = "join_scanner" -> "join_workers"
    [] pc = "join_workers" -> "reset"
    [] OTHER -> "stopped"

\* Server::shutdown: shutdown_ = true, running_ = false.
ShutdownFlag ==
  /\ srv.pc = "running"
  /\ srv.running
  /\ srv' = [srv EXCEPT !.pc = ShutdownAfter("running"), !.shutdown = TRUE,
                        !.running = FALSE]
  /\ UNCHANGED <<fs, budget, pool, runners, scan, wk, workerId>>
  /\ UNCHANGED <<ClientVars, ReaderVars, ProcVars>>

\* A faulty Pool::stop: no check of running_, and shutdown_ is flipped.
PoolStopSignalFlip(p) == [p EXCEPT !.shutdown = ~p.shutdown, !.running = FALSE]

\* Pool::stop, first part: return at once unless running_, else
\* shutdown_ = true, running_ = false.
PoolStopSignal(p) ==
  IF ~p.running THEN p ELSE [p EXCEPT !.shutdown = TRUE, !.running = FALSE]

\* The workers after Pool::stop has set shutdown_ and called notify_all, both
\* without queueMutex_.  A worker about to take an entry, one that is
\* blocked in jobAvailable_.wait and one that has not looked yet will see
\* shutdown_.  A worker that has evaluated the wait predicate (queue empty,
\* shutdown_ not set) and has not blocked yet misses the notification and
\* blocks with nobody left to wake it ("hung").
AfterNotifyAll ==
  LET parked == IF pool.queue = <<>>
                  THEN {w \in WorkerIds : wk[w].pc = "wait"}
                  ELSE {}
  IN {[w \in WorkerIds |->
         IF w \in H THEN [wk[w] EXCEPT !.pc = "hung"] ELSE wk[w]] :
      H \in SUBSET parked}

\* Server::shutdown: scannerThread_.join(), then Pool::stop sets shutdown_,
\* clears running_ and notifies all workers.
ShutdownStopPool ==
  /\ srv.pc = "join_scanner"
  /\ scan.pc \in {"done", "unstarted"}
  /\ srv' = [srv EXCEPT !.pc = ShutdownAfter("join_scanner")]
  /\ pool' = PoolStopSignal(pool)
  /\ wk' \in (IF pool.running THEN AfterNotifyAll ELSE {wk})
  /\ UNCHANGED <<fs, budget, runners, scan, workerId>>
  /\ UNCHANGED <<ClientVars, ReaderVars, ProcVars>>

\* A faulty Pool::stop: the worker threads are not waited for.
WorkersJoinedNoWait == TRUE

\* thread.join() has returned for every worker thread.
WorkersJoined == \A w \in WorkerIds : wk[w].pc \in {"done", "unstarted"}

\* Pool::stop, second part: join every worker, clear workerThreads_, drop
\* the queue, return.
ShutdownJoin ==
  /\ srv.pc = "join_workers"
  /\ WorkersJoined
  /\ srv' = [srv EXCEPT !.pc = ShutdownAfter("join_workers")]
  /\ pool' = [pool EXCEPT !.queue = <<>>]
  /\ UNCHANGED <<fs, budget, runners, scan, wk, workerId>>
  /\ UNCHANGED <<ClientVars, ReaderVars, ProcVars>>

\* Server::shutdown: processor_.reset() destroys the Runners, pool_.reset()
\* runs Pool::~Pool, which calls Pool::stop a second time, scanner_.reset().
ShutdownReset ==
  /\ srv.pc = "reset"
  /\ runners' = {}
  /\ pool' = PoolStopSignal(pool)
  /\ srv' = [srv EXCEPT !.pc = ShutdownAfter("reset")]
  /\ UNCHANGED <<fs, budget, scan, wk, workerId>>
  /\ UNCHANGED <<ClientVars, ReaderVars, ProcVars>>

\* Server::~Server calls shutdown() on the server that was shut down:
\* running_ is false and the call returns at once.
ServerDestroy ==
  /\ srv.pc = "stopped"
  /\ ~srv.running
  /\ srv' = [srv EXCEPT !.pc = "destroyed"]
  /\ UNCHANGED <<fs, budget, pool, runners, scan, wk, workerId>>
  /\ UNCHANGED <<ClientVars, ReaderVars, ProcVars>>

\* ======================================================== Server::scanLoop
\* A faulty Scanner::isValidJobDirectory: any directory is taken for a job.
isValidJobDirectoryAny(d) == TRUE

\* Scanner::isValidJobDirectory: prompt.txt is a regular, non-empty file.
isValidJobDirectory(d) == d.prompt.exists /\ Len(d.prompt.bytes) # 0

\* std::sort of the scan result: id inserted into the sorted list js.
RECURSIVE SortedInsert(_, _)
SortedInsert(js, id) ==
  IF js = <<>> THEN <<id>>
  ELSE IF id <= Head(js) THEN <<id>> \o js
  ELSE <<Head(js)>> \o SortedInsert(Tail(js), id)

\* while (!shutdown_): Scanner::scan opens input/ready.  The entries that
\* exist now are the ones the directory iteration is sure to visit.
ScanBegin ==
  /\ scan.pc = "loop"
  /\ scan' = IF srv.shutdown
               THEN [scan EXCEPT !.pc = "done"]
               ELSE [pc |-> IF DOMAIN fs["ready"] = {} THEN "loop" ELSE "iter",
                     todo |-> DOMAIN fs["ready"], jobs |-> <<>>]
  /\ UNCHANGED <<fs, budget, srv, pool, runners, wk, workerId>>
  /\ UNCHANGED <<ClientVars, ReaderVars, ProcVars>>

\* Scanner::scan: one entry of the iteration, in directory order (any order);
\* the entry is examined through its path at the time of the visit.
ScanEntry ==
  /\ scan.pc = "iter"
  /\ \E id \in scan.todo :
       LET valid == id \in DOMAIN fs["ready"] /\ isValidJobDirectory(fs["ready"][id])
           js == IF valid THEN SortedInsert(scan.jobs, id) ELSE scan.jobs
           rest == scan.todo \ {id}
       IN scan' = [pc |-> IF rest # {} THEN "iter"
                          ELSE IF js = <<>> THEN "loop" ELSE "submit",
                   todo |-> rest, jobs |-> js]
  /\ UNCHANGED <<fs, budget, srv, pool, runners, wk, workerId>>
  /\ UNCHANGED <<ClientVars, ReaderVars, ProcVars>>

\* A faulty Pool::submit: the id is never pushed.
PoolSubmitDrop(p, id) == p

\* Pool::submit: refused unless running_ and not shutdown_, else pushed.
PoolSubmit(p, id) ==
  IF ~p.running \/ p.shutdown THEN p
  ELSE [p EXCEPT !.queue = Append(@, id)]

\* scanLoop: for each job found: if (shutdown_) break; pool_->submit(jobId).
\* After the last one the thread sleeps and starts the next iteration.
ScanSubmit ==
  /\ scan.pc = "submit"
  /\ IF srv.shutdown
       THEN /\ scan' = [scan EXCEPT !.pc = "loop", !.jobs = <<>>]
            /\ UNCHANGED pool
       ELSE /\ Len(pool.queue) < MaxQueue
            /\ pool' = PoolSubmit(pool, Head(scan.jobs))
            /\ scan' = [scan EXCEPT !.jobs = Tail(@),
                          !.pc = IF Tail(scan.jobs) = <<>> THEN "loop" ELSE "submit"]
  /\ UNCHANGED <<fs, budget, srv, runners, wk, workerId>>
  /\ UNCHANGED <<ClientVars, ReaderVars, ProcVars>>

\* ===================================== Pool::workerLoop, Processor::process
SrvVars == <<srv, runners, workerId, scan>>

\* workerLoop: leave when shutdown_ is set, else wait for a queue entry and
\* pop it; processor_(jobId, workerId) then runs outside the lock.
\* Processor::process first fetches the worker's Runner: getRunnerForWorker
\* throws when the map has no entry for workerId, and the exception leaves
\* the noexcept process(), which ends the program ("terminate").
WorkerTake(w) ==
  /\ wk[w].pc = "wait"
  /\ IF pool.shutdown
       THEN /\ wk' = [wk EXCEPT ![w].pc = "done"]
            /\ UNCHANGED pool
       ELSE /\ pool.queue # <<>>
            /\ wk' = [wk EXCEPT
                 ![w].pc = IF workerId[w] \in runners THEN "claim" ELSE "terminate",
                 ![w].job = Head(pool.queue)]
            /\ pool' = [pool EXCEPT !.queue = Tail(@)]
  /\ UNCHANGED <<fs, budget>>
  /\ UNCHANGED <<SrvVars, ClientVars, ReaderVars, ProcVars>>

\* A faulty workerLoop: the thread ends when the processor function failed.
AfterProcessExit(res) ==
  IF res \in {"Failed", "SystemError"} THEN "done" ELSE "wait"

\* workerLoop after processor_(jobId, workerId) returned or threw: the next
\* iteration of the loop, whatever came back.
AfterProcess(res) == "wait"

\* process() has returned wk[w].res; the worker loops.
WorkerLoop(w) ==
  /\ wk[w].pc = "ret"
  /\ wk' = [wk EXCEPT ![w] = IdleWorker(AfterProcess(wk[w].res))]
  /\ UNCHANGED <<fs, budget, pool>>
  /\ UNCHANGED <<SrvVars, ClientVars, ReaderVars, ProcVars>>

Return(w, r) == [wk[w] EXCEPT !.pc = "ret", !.res = r]

\* A faulty process(): finalizeFailure is called with a fixed message.
FailGeneric(w, m, r) ==
  [wk[w] EXCEPT !.pc = "ff_write", !.msg = <<"Job failed">>, !.res = r]

\* process() goes on to finalizeFailure(jobId, m) and will return r.
Fail(w, m, r) == [wk[w] EXCEPT !.pc = "ff_write", !.msg = m, !.res = r]

\* A faulty claim: the directory is copied into processing and stays in
\* input/ready.
moveReadyToProcessingCopy(f, id) ==
  IF CanRename(f, "ready", "processing", id)
    THEN [f EXCEPT !["processing"] = Put(@, id, f["ready"][id])]
    ELSE f

\* A faulty claim: a job that is no longer in input/ready is taken back
\* from output.
moveReadyToProcessingAnywhere(f, id) ==
  IF CanRename(f, "ready", "processing", id)
    THEN Rename(f, "ready", "processing", id)
    ELSE IF CanRename(f, "output", "processing", id)
      THEN Rename(f, "output", "processing", id)
      ELSE f

\* Processor::moveReadyToProcessing: the workspace after
\* rename(input/ready/<id>, processing/<id>); unchanged when the rename fails.
moveReadyToProcessing(f, id) ==
  IF CanRename(f, "ready", "processing", id)
    THEN Rename(f, "ready", "processing", id)
    ELSE f

\* A faulty process(): a claim that did not succeed is finalized as a failure.
NotClaimedFinalize(w) == Fail(w, <<"Job not found">>, "NotFound")

\* A faulty process(): the result of the claim is ignored and the prompt is
\* read all the same.
NotClaimedContinue(w) == [wk[w] EXCEPT !.pc = "read"]

\* moveReadyToProcessing returned false: process() returns NotFound at once.
NotClaimed(w) == Return(w, "NotFound")

\* Step 1: the claim.  Any error of the rename makes process() return
\* NotFound.
ProcClaim(w) ==
  /\ wk[w].pc = "claim"
  /\ LET id == wk[w].job
         can == moveReadyToProcessing(fs, id) # fs
     IN \E io \in (IF can THEN IoOutcomes("daemon") ELSE {TRUE}) :
          /\ budget' = Charge("daemon", io)
          /\ IF io /\ can
               THEN /\ fs' = moveReadyToProcessing(fs, id)
                    /\ claims' = [claims EXCEPT ![id] = @ + 1]
                    /\ wk' = [wk EXCEPT ![w].pc = "read"]
               ELSE /\ UNCHANGED <<fs, claims>>
                    /\ wk' = [wk EXCEPT ![w] = NotClaimed(w)]
  /\ UNCHANGED <<pool, calls, returned, errLost>>
  /\ UNCHANGED <<SrvVars, ClientVars, ReaderVars>>

\* Processor::readPrompt: the bytes of processing/<id>/prompt.txt, or the
\* empty string when the file is missing or cannot be read.
readPrompt(f, id, io) ==
  IF io /\ id \in DOMAIN f["processing"] /\ f["processing"][id].prompt.exists
    THEN f["processing"][id].prompt.bytes
    ELSE <<>>

\* Step 2 and the runner check of step 3; Runner::run is entered at the end.
ProcRead(w) ==
  /\ wk[w].pc = "read"
  /\ \E io \in IoOutcomes("daemon") :
       LET id == wk[w].job
           prompt == readPrompt(fs, id, io)
       IN /\ budget' = Charge("daemon", io)
          /\ IF prompt = <<>>
               THEN /\ wk' = [wk EXCEPT ![w] =
                               Fail(w, <<"Failed to read prompt file">>, "Failed")]
                    /\ UNCHANGED calls
               ELSE IF workerId[w] \notin runners
                 THEN /\ wk' = [wk EXCEPT ![w] =
                                 Fail(w, <<"No runner available">>, "SystemError")]
                      /\ UNCHANGED calls
                 ELSE /\ wk' = [wk EXCEPT ![w].pc = "run", ![w].prompt = prompt]
                      /\ calls' = [calls EXCEPT ![id] = @ + 1]
  /\ UNCHANGED <<fs, pool, claims, returned, errLost>>
  /\ UNCHANGED <<SrvVars, ClientVars, ReaderVars>>

\* Step 3: runner->run(prompt) comes back with text, with an error, or
\* throws into the catch block of process().
ProcRun(w) ==
  /\ wk[w].pc = "run"
  /\ \E r \in RunResults :
       /\ returned' = [returned EXCEPT ![wk[w].job] = r]
       /\ wk' = [wk EXCEPT ![w] =
            CASE r.kind = "ok" -> [wk[w] EXCEPT !.pc = "fs_open", !.run = r]
              [] r.kind = "fail" -> Fail(w, r.text, "Failed")
              [] OTHER -> Fail(w, <<"Internal processing error: ">> \o r.text,
                               "SystemError")]
  /\ UNCHANGED <<fs, budget, pool, claims, calls, errLost>>
  /\ UNCHANGED <<SrvVars, ClientVars, ReaderVars>>

InProcessing(w) == wk[w].job \in DOMAIN fs["processing"]

\* A faulty finalizeSuccess: result.txt.tmp is never renamed to result.txt.
SuccessNextStepSkip(pc) ==
  CASE pc = "fs_open" -> "fs_write"
    [] pc = "fs_write" -> "fs_mv_dir"
    [] OTHER -> "ret"

\* A faulty finalizeSuccess: the text is never written, the empty
\* result.txt.tmp is renamed to result.txt.
SuccessNextStepNoWrite(pc) ==
  CASE pc = "fs_open" -> "fs_mv_file"
    [] pc = "fs_mv_file" -> "fs_mv_dir"
    [] OTHER -> "ret"

\* Where finalizeSuccess goes after step pc succeeded.
SuccessNextStep(pc) ==
  CASE pc = "fs_open" -> "fs_write"
    [] pc = "fs_write" -> "fs_mv_file"
    [] pc = "fs_mv_file" -> "fs_mv_dir"
    [] OTHER -> "ret"

\* The workspace after step pc of finalizeSuccess(id, text) succeeded.
SuccessEffect(f, pc, id, text) ==
  CASE pc = "fs_open" -> [f EXCEPT !["processing"][id].tmp = FileOf(<<>>)]
    [] pc = "fs_write" -> [f EXCEPT !["processing"][id].tmp = FileOf(text)]
    [] pc = "fs_mv_file" ->
         [f EXCEPT !["processing"][id].result = f["processing"][id].tmp,
                   !["processing"][id].tmp = NoFile]
    [] OTHER -> Rename(f, "processing", "output", id)

\* Whether step pc of finalizeSuccess can succeed on workspace f.
SuccessPossible(f, pc, id) ==
  CASE pc = "fs_mv_file" ->
         id \in DOMAIN f["processing"] /\ f["processing"][id].tmp.exists
    [] pc = "fs_mv_dir" -> CanRename(f, "processing", "output", id)
    [] OTHER -> id \in DOMAIN f["processing"]

\* A faulty process(): a job whose finalizeSuccess failed is finalized as a
\* failure.
SuccessFailedFinalize(w) ==
  Fail(w, <<"Failed to finalize">>, "SystemError")

\* finalizeSuccess returned false: process() returns SystemError and does
\* nothing else with the job.
SuccessFailed(w) == Return(w, "SystemError")

\* Step 4, finalizeSuccess: open result.txt.tmp, write it, rename it to
\* result.txt, rename processing/<id> to output/<id>.  A failing step makes
\* finalizeSuccess return false and process() return SystemError.
ProcSuccess(w) ==
  /\ wk[w].pc \in {"fs_open", "fs_write", "fs_mv_file", "fs_mv_dir"}
  /\ LET id == wk[w].job
         pc == wk[w].pc
         can == SuccessPossible(fs, pc, id)
     IN \E io \in (IF can THEN IoOutcomes("daemon") ELSE {TRUE}) :
          /\ budget' = Charge("daemon", io)
          /\ IF io /\ can
               THEN /\ fs' = SuccessEffect(fs, pc, id, wk[w].run.text)
                    /\ wk' = [wk EXCEPT ![w] =
                         IF SuccessNextStep(pc) = "ret" THEN Return(w, "Success")
                         ELSE [wk[w] EXCEPT !.pc = SuccessNextStep(pc)]]
               ELSE /\ \E part \in PartialOf(wk[w].run.text) :
                         fs' = IF pc = "fs_write" /\ can
                                 THEN [fs EXCEPT !["processing"][id].tmp = FileOf(part)]
                                 ELSE fs
                    /\ wk' = [wk EXCEPT ![w] = SuccessFailed(w)]
  /\ UNCHANGED <<pool>>
  /\ UNCHANGED <<SrvVars, ClientVars, ReaderVars, ProcVars>>

\* finalizeFailure: error.txt is written best effort (no file when the open
\* fails, a prefix when the write fails), then the directory is renamed.
ProcFailWrite(w) ==
  /\ wk[w].pc = "ff_write"
  /\ LET id == wk[w].job
         can == InProcessing(w)
     IN \E io \in (IF can THEN IoOutcomes("daemon") ELSE {TRUE}) :
          /\ budget' = Charge("daemon", io)
          /\ IF io /\ can
               THEN /\ fs' = [fs EXCEPT !["processing"][id].error = FileOf(wk[w].msg)]
                    /\ UNCHANGED errLost
               ELSE /\ \E left \in {NoFile} \cup {FileOf(b) : b \in PartialOf(wk[w].msg)} :
                         fs' = IF can THEN [fs EXCEPT !["processing"][id].error = left]
                               ELSE fs
                    /\ errLost' = errLost \cup {id}
          /\ wk' = [wk EXCEPT ![w].pc = "ff_mv"]
  /\ UNCHANGED <<pool, claims, calls, returned>>
  /\ UNCHANGED <<SrvVars, ClientVars, ReaderVars>>

\* A faulty finalizeFailure: the job directory is removed.
FailRenameRemove(f, id) ==
  IF id \in DOMAIN f["processing"]
    THEN [f EXCEPT !["processing"] = Del(@, id)]
    ELSE f

\* A faulty finalizeFailure: the job directory is put back into input/ready.
FailRenameRequeue(f, id) ==
  IF CanRename(f, "processing", "ready", id)
    THEN Rename(f, "processing", "ready", id)
    ELSE f

\* The rename of Processor::finalizeFailure: the workspace after
\* rename(processing/<id>, failed/<id>); unchanged when the rename fails.
FailRename(f, id) ==
  IF CanRename(f, "processing", "failed", id)
    THEN Rename(f, "processing", "failed", id)
    ELSE f

\* finalizeFailure: rename processing/<id> -> failed/<id>; process() returns
\* what it had decided whether or not the rename worked.
ProcFailMove(w) ==
  /\ wk[w].pc = "ff_mv"
  /\ LET id == wk[w].job
         can == FailRename(fs, id) # fs
     IN \E io \in (IF can THEN IoOutcomes("daemon") ELSE {TRUE}) :
          /\ budget' = Charge("daemon", io)
          /\ fs' = IF io THEN FailRename(fs, id) ELSE fs
          /\ wk' = [wk EXCEPT ![w] = Return(w, wk[w].res)]
  /\ UNCHANGED <<pool>>
  /\ UNCHANGED <<SrvVars, ClientVars, ReaderVars, ProcVars>>

Worker(w) ==
  \/ WorkerTake(w)
  \/ WorkerLoop(w)
  \/ ProcClaim(w)
  \/ ProcRead(w)
  \/ ProcRun(w)
  \/ ProcSuccess(w)
  \/ ProcFailWrite(w)
  \/ ProcFailMove(w)

\* ================================================ Flow::status, Flow::get
\* A faulty Flow::status: input/ready is probed first.
ProbeOrderReadyFirst == <<"ready", "output", "failed", "processing">>

\* The order in which Flow::status probes the locations.
ProbeOrder == <<"output", "failed", "processing", "ready">>

\* A faulty Flow::status: Running is answered for input/ready and Queued for
\* processing.
StatusOfSwapped(loc) ==
  CASE loc = "output" -> "Done"
    [] loc = "failed" -> "Failed"
    [] loc = "processing" -> "Queued"
    [] OTHER -> "Running"

\* The answer of Flow::status for the location where it found the id.
StatusOf(loc) ==
  CASE loc = "output" -> "Done"
    [] loc = "failed" -> "Failed"
    [] loc = "processing" -> "Running"
    [] OTHER -> "Queued"

\* The position of the first "\n" in b, 0 when there is none.
RECURSIVE NewlineAt(_, _)
NewlineAt(b, i) ==
  IF i > Len(b) THEN 0
  ELSE IF b[i] = "\n" THEN i ELSE NewlineAt(b, i + 1)

\* Flow::readResultContent: while (std::getline(file, line)) content += line + "\n".
\* getline takes the bytes up to the next newline (dropped) or to the end of
\* the file, and fails only when there is no byte left.
RECURSIVE readResultContent(_)
readResultContent(b) ==
  IF b = <<>> THEN <<>>
  ELSE LET n == NewlineAt(b, 1) IN
       IF n = 0 THEN b \o <<"\n">>
       ELSE SubSeq(b, 1, n - 1) \o <<"\n">>
            \o readResultContent(SubSeq(b, n + 1, Len(b)))

DaemonVars == <<fs, budget, pool, wk, srv, runners, workerId, scan>>

\* A client calls Flow::status(id) or Flow::get(id) (which calls status).
ReaderCall ==
  /\ rd.pc = "idle"
  /\ \E op \in {"status", "get"}, id \in JobIds :
       rd' = [IdleReader EXCEPT !.pc = "probe", !.op = op, !.id = id]
  /\ UNCHANGED seen
  /\ UNCHANGED <<DaemonVars, ClientVars, ProcVars>>

\* The reader once status() has answered st.
Answered(st) ==
  IF rd.op = "get" /\ st \in {"Done", "Failed"}
    THEN [rd EXCEPT !.pc = "get_exists", !.st = st]
    ELSE [rd EXCEPT !.pc = "ret", !.st = st, !.found = TRUE]

\* Flow::status: one std::filesystem::exists probe; the first hit answers,
\* no hit at all answers Missing.
ReaderProbe ==
  /\ rd.pc = "probe"
  /\ LET loc == ProbeOrder[rd.k] IN
     rd' = IF rd.id \in DOMAIN fs[loc] THEN Answered(StatusOf(loc))
           ELSE IF rd.k = Len(ProbeOrder) THEN Answered("Missing")
           ELSE [rd EXCEPT !.k = @ + 1]
  /\ UNCHANGED seen
  /\ UNCHANGED <<DaemonVars, ClientVars, ProcVars>>

\* The file Flow::get reads for a job that status() reported Done or Failed.
GetFile ==
  LET loc == IF rd.st = "Done" THEN "output" ELSE "failed" IN
  IF rd.id \notin DOMAIN fs[loc] THEN NoFile
  ELSE IF rd.st = "Done" THEN fs[loc][rd.id].result ELSE fs[loc][rd.id].error

\* Flow::get: exists(result.txt) (nullopt without it), exists(error.txt)
\* (empty content without it).
ReaderGetExists ==
  /\ rd.pc = "get_exists"
  /\ rd' = IF GetFile.exists THEN [rd EXCEPT !.pc = "get_read"]
           ELSE [rd EXCEPT !.pc = "ret", !.found = (rd.st = "Failed")]
  /\ UNCHANGED seen
  /\ UNCHANGED <<DaemonVars, ClientVars, ProcVars>>

\* Flow::get: the content, read line by line.
ReaderGetRead ==
  /\ rd.pc = "get_read"
  /\ rd' = [rd EXCEPT !.pc = "ret", !.found = TRUE,
                      !.content = readResultContent(GetFile.bytes)]
  /\ UNCHANGED seen
  /\ UNCHANGED <<DaemonVars, ClientVars, ProcVars>>

\* Missing < Queued < Running < Done, Failed.
Rank(st) ==
  CASE st = "Queued" -> 1
    [] st = "Running" -> 2
    [] st \in {"Done", "Failed"} -> 3
    [] OTHER -> 0

\* The call returns to the client, which remembers the furthest state it was
\* ever given for the id.
ReaderReturn ==
  /\ rd.pc = "ret"
  /\ rd' = IdleReader
  /\ seen' = [seen EXCEPT ![rd.id] = IF Rank(rd.st) > Rank(@) THEN rd.st ELSE @]
  /\ UNCHANGED <<DaemonVars, ClientVars, ProcVars>>

\* flw <workspace> <id>: the exit code main returns for what Flow::get
\* handed back: 1 with "Job not found" for no job, 0 for a Done job, 1 for a
\* Failed one, 2 ("not ready") for any other status.
flwExit(found, st) ==
  IF ~found THEN 1
  ELSE IF st = "Done" THEN 0
  ELSE IF st = "Failed" THEN 1
  ELSE 2

Reader ==
  \/ ReaderCall
  \/ ReaderProbe
  \/ ReaderGetExists
  \/ ReaderGetRead
  \/ ReaderReturn

\* ========================================================== specifications
Next ==
  \/ \E c \in ClientIds : Submit(c)
  \/ ServerInitRunners
  \/ ServerStart
  \/ ShutdownFlag
  \/ ShutdownStopPool
  \/ ShutdownJoin
  \/ ShutdownReset
  \/ ServerDestroy
  \/ ScanBegin
  \/ ScanEntry
  \/ ScanSubmit
  \/ \E w \in WorkerIds : Worker(w)

\* Clients, the daemon and file-system failures.
Spec == Init /\ [][Next]_vars

ReaderNext == Next \/ Reader

\* Clients, the daemon and a reader; only a client's file-system operations
\* fail.
ReaderSpec == InitWith(MaxIoFaults, 0) /\ [][ReaderNext]_vars

\* The daemon's threads run whenever they can; a client or the operator
\* (shutdown) may stay away.
Fairness ==
  /\ WF_vars(ServerInitRunners)
  /\ WF_vars(ServerStart)
  /\ WF_vars(ShutdownStopPool)
  /\ WF_vars(ShutdownJoin)
  /\ WF_vars(ShutdownReset)
  /\ WF_vars(ScanBegin)
  /\ WF_vars(ScanEntry)
  /\ WF_vars(ScanSubmit)
  /\ \A w \in WorkerIds : WF_vars(Worker(w))

\* The daemon under fair scheduling, on a file system that does not fail
\* under it (a submit may still fail and return an error).
LiveSpec == InitWith(MaxIoFaults, 0) /\ [][Next]_vars /\ Fairness

\* A job directory left in the workspace by an earlier run.
LeftDir == [EmptyDir EXCEPT !.prompt = FileOf(<<"p">>)]

\* The directory of a job as it lies in location l: with result.txt in
\* output and error.txt in failed.
LeftIn(l) ==
  CASE l = "output" -> [LeftDir EXCEPT !.result = FileOf(<<"a">>)]
    [] l = "failed" -> [LeftDir EXCEPT !.error = FileOf(<<"e">>)]
    [] OTHER -> LeftDir

\* Workspaces that hold a directory named 0 in any set of locations.
StaticWorkspaces ==
  {[l \in Locations |-> IF l \in S THEN (0 :> LeftIn(l)) ELSE <<>>] :
     S \in SUBSET Locations}

\* A reader alone, on a workspace that nothing else changes.
StatusSpec ==
  /\ \E f \in StaticWorkspaces : InitOn(f, 0, 0)
  /\ [][Reader]_vars

\* Which process each client runs in: all in one process, or in any others
\* (the first client's process is called 0).
ProcAssignments == {procs \in [ClientIds -> Pids] : procs[1] = 0}

\* Clients only: threads of one or of several processes calling submit and
\* setMaxSize, with no daemon.
SubmitNext ==
  \/ \E c \in ClientIds : Submit(c)
  \/ \E c \in ClientIds : SetMaxSize(c)

SubmitSpec ==
  /\ \E procs \in ProcAssignments :
       InitFull(EmptyWorkspace, procs, Budget(MaxIoFaults + 1, 0, MaxSubmits, MaxRejects, 0))
  /\ [][SubmitNext]_vars

\* What a previous run or a broken submitter may have left behind: a job whose
\* worker died (in processing), or a directory in input/ready without
\* prompt.txt or with a zero-byte prompt.txt.
LeftWorkspaces ==
  {[EmptyWorkspace EXCEPT !["processing"] = (OldId :> LeftDir)],
   [EmptyWorkspace EXCEPT !["ready"] = (OldId :> EmptyDir)],
   [EmptyWorkspace EXCEPT !["ready"] =
      (OldId :> [EmptyDir EXCEPT !.prompt = FileOf(<<>>)])]}

\* The daemon started on such a workspace, under fair scheduling; only a
\* client's file-system operations fail.
RestartSpec ==
  /\ \E f \in LeftWorkspaces : InitOn(f, MaxIoFaults, 0)
  /\ [][Next]_vars
  /\ Fairness

\* Clients and the daemon when the construction of a Runner may fail
\* (the model file is missing or cannot be loaded).
StartSpec ==
  /\ InitFull(EmptyWorkspace, [c \in ClientIds |-> 0],
              Budget(MaxIoFaults, 0, MaxJobs, 0, MaxRunnerFaults))
  /\ [][Next]_vars

\* ============================================ a Pool used by an application
\* What the threads of an application leave alone.
AppFrame ==
  <<fs, budget, counter, pidOf, maxBytes, client, asked, okIds, last, vis>>

\* Pool::submit, the check: if (!running_ || shutdown_) return false, read
\* without queueMutex_.
AppSubmitCheck ==
  /\ app.sub = "idle"
  /\ app' = [app EXCEPT !.sub = IF ~pool.running \/ pool.shutdown
                                  THEN "refused" ELSE "push"]
  /\ UNCHANGED <<pool, wk>>
  /\ UNCHANGED <<AppFrame, SrvVars, ReaderVars, ProcVars>>

\* Pool::submit, the rest: jobQueue_.push(jobId) under queueMutex_, then
\* jobAvailable_.notify_one(), which wakes at most one blocked worker.
AppSubmitPush ==
  /\ app.sub = "push"
  /\ Len(pool.queue) < MaxQueue
  /\ pool' = [pool EXCEPT !.queue = Append(@, OldId)]
  /\ \/ wk' = wk
     \/ \E w \in WorkerIds :
          /\ wk[w].pc = "hung"
          /\ wk' = [wk EXCEPT ![w].pc = "wait"]
  /\ app' = [app EXCEPT !.sub = "idle"]
  /\ UNCHANGED <<AppFrame, SrvVars, ReaderVars, ProcVars>>

\* Pool::stop called by the application: shutdown_ = true, running_ = false,
\* notify_all.
AppStop ==
  /\ app.stop = "idle"
  /\ pool' = PoolStopSignal(pool)
  /\ wk' \in (IF pool.running THEN AfterNotifyAll ELSE {wk})
  /\ app' = [app EXCEPT !.stop = IF pool.running THEN "join" ELSE "returned"]
  /\ UNCHANGED <<AppFrame, SrvVars, ReaderVars, ProcVars>>

\* Pool::stop, second part: every worker joined, the queue cleared under
\* queueMutex_, return.
AppStopJoin ==
  /\ app.stop = "join"
  /\ WorkersJoined
  /\ pool' = [pool EXCEPT !.queue = <<>>]
  /\ app' = [app EXCEPT !.stop = "returned"]
  /\ UNCHANGED wk
  /\ UNCHANGED <<AppFrame, SrvVars, ReaderVars, ProcVars>>

\* The directories input/ready may hold when the ids come from the
\* application and not from Scanner::scan: a job, a directory without
\* prompt.txt, one with a zero-byte prompt.txt.
UnscannedDirs == {LeftDir, EmptyDir, [EmptyDir EXCEPT !.prompt = FileOf(<<>>)]}

\* The state after Pool::start(processor) returned true in an application
\* that made a Processor with its Runners: the W workers run workerLoop, and
\* input/ready holds a directory.
PoolInit ==
  /\ \E d \in UnscannedDirs :
       InitClients([EmptyWorkspace EXCEPT !["ready"] = (OldId :> d)],
                   [c \in ClientIds |-> 0], Budget(0, MaxIoFaults, 0, 0, 0))
  /\ srv = [pc |-> "constructed", running |-> FALSE, shutdown |-> FALSE]
  /\ pool = [running |-> TRUE, shutdown |-> FALSE, queue |-> <<>>]
  /\ runners = WorkerIds
  /\ workerId = [t \in WorkerIds |-> WorkerIdOf(t)]
  /\ app = NoApp
  /\ scan = [pc |-> "unstarted", todo |-> {}, jobs |-> <<>>]
  /\ wk = [w \in WorkerIds |-> IdleWorker("wait")]

PoolNext ==
  \/ AppSubmitCheck
  \/ AppSubmitPush
  \/ AppStop
  \/ AppStopJoin
  \/ \E w \in WorkerIds : Worker(w)

\* One thread of the application calls Pool::submit again and again while
\* another calls Pool::stop.
PoolSpec == PoolInit /\ [][PoolNext]_vars

\* ======================================================= Runner::runVision
\* What runVision leaves alone.
VisionFrame ==
  <<fs, budget, counter, pidOf, maxBytes, client, asked, okIds, last, app>>

\* Worker w leaves runVision with {false, "", msg}.
VisionFail(w, msg) == [vis EXCEPT !.pc[w] = "idle", !.res[w] = msg]

\* Worker w goes on to step pc of runVision.
VisionStep(w, pc) == [vis EXCEPT !.pc[w] = pc]

\* Worker w enters Runner::run(prompt, imagePaths) with the Runner of its
\* own: without a model or without an mtmd context the call returns at once.
VisionEnter(w) ==
  /\ vis.pc[w] = "idle"
  /\ vis' \in {VisionFail(w, "Model not loaded"),
               VisionFail(w, "Vision job requires --mmproj flag"),
               VisionStep(w, "load")}
  /\ UNCHANGED <<VisionFrame, DaemonVars, ReaderVars, ProcVars>>

\* loadImages: no bitmap means failure.
VisionLoad(w) ==
  /\ vis.pc[w] = "load"
  /\ vis' \in {VisionFail(w, "Failed to load image(s)"),
               VisionStep(w, "tokenize")}
  /\ UNCHANGED <<VisionFrame, DaemonVars, ReaderVars, ProcVars>>

\* mtmd_input_chunks_init and mtmd_tokenize.
VisionTokenize(w) ==
  /\ vis.pc[w] = "tokenize"
  /\ vis' \in {VisionFail(w, "Failed to init image chunks"),
               VisionFail(w, "Failed to tokenize multimodal prompt"),
               VisionStep(w, "context")}
  /\ UNCHANGED <<VisionFrame, DaemonVars, ReaderVars, ProcVars>>

\* llama_init_from_model and the sampler; next comes the lock.
VisionContext(w) ==
  /\ vis.pc[w] = "context"
  /\ vis' \in {VisionFail(w, "Failed to create context"),
               VisionStep(w, "lock")}
  /\ UNCHANGED <<VisionFrame, DaemonVars, ReaderVars, ProcVars>>

\* std::lock_guard vision_lock(vision_encoding_mutex_): the thread blocks
\* until the mutex is free and takes it.
VisionLock(w) ==
  /\ vis.pc[w] = "lock"
  /\ vis.holder = {}
  /\ vis' = [vis EXCEPT !.holder = {w}, !.pc[w] = "encode"]
  /\ UNCHANGED <<VisionFrame, DaemonVars, ReaderVars, ProcVars>>

\* A faulty runVision: the mutex is unlocked by hand after a successful
\* encoding only.
UnlockOnSuccess(h, w, how) == IF how = "ok" THEN h \ {w} ELSE h

\* The lock_guard leaves its scope, by the closing brace after a successful
\* encoding, by the return statement after a failed one or by an exception:
\* its destructor unlocks the mutex.
Unlock(h, w, how) == h \ {w}

\* How the encoding under the lock can end.
EncodeOutcomes == {"ok", "fail", "throw"}

\* mtmd_helper_eval_chunks under the lock: on success the call goes on to
\* the generation, on failure it frees its resources and returns ok = false,
\* an exception is caught at the end of runVision.
VisionEncode(w) ==
  /\ vis.pc[w] = "encode"
  /\ \E how \in EncodeOutcomes :
       LET after == CASE how = "ok" -> VisionStep(w, "generate")
                      [] how = "fail" ->
                           VisionFail(w, "Failed to eval multimodal prompt")
                      [] OTHER -> VisionFail(w, "Multimodal inference error: ")
       IN vis' = [after EXCEPT !.holder = Unlock(@, w, how)]
  /\ UNCHANGED <<VisionFrame, DaemonVars, ReaderVars, ProcVars>>

\* The token generation loop, outside the lock; the call returns ok = true.
VisionGenerate(w) ==
  /\ vis.pc[w] = "generate"
  /\ vis' = [vis EXCEPT !.pc[w] = "idle", !.res[w] = "ok"]
  /\ UNCHANGED <<VisionFrame, DaemonVars, ReaderVars, ProcVars>>

Vision(w) ==
  \/ VisionEnter(w)
  \/ VisionLoad(w)
  \/ VisionTokenize(w)
  \/ VisionContext(w)
  \/ VisionLock(w)
  \/ VisionEncode(w)
  \/ VisionGenerate(w)

VisionNext == \E w \in WorkerIds : Vision(w)

\* The W workers, each with its Runner, run vision jobs one after another.
VisionSpec == Init /\ [][VisionNext]_vars

\* ================================================================== claims
\* The locations of workspace f that hold a directory named id.
LocsOf(f, id) == {l \in Locations : id \in DOMAIN f[l]}

Terminal(f, id) == id \in (DOMAIN f["output"]) \cup (DOMAIN f["failed"])

\* Positions of a worker inside process() after it won the claim.
AfterClaim ==
  {"read", "run", "fs_open", "fs_write", "fs_mv_file", "fs_mv_dir",
   "ff_write", "ff_mv"}

\* C1: in every reachable state every job id is in at most one of the five
\* locations writing, ready, processing, output, failed.
C1_StateUniqueness ==
  \A id \in JobIds : Cardinality(LocsOf(fs, id)) <= 1

\* A job is held in processing while another worker is about to try the
\* claim for the same id.
C1_Witness ==
  \E id \in JobIds, w \in WorkerIds :
    /\ LocsOf(fs, id) = {"processing"}
    /\ wk[w].pc = "claim"
    /\ wk[w].job = id

\* C2: of all process(id, w) calls for a published job at most one wins the
\* claim rename, no two workers ever hold the job together, and the backend
\* is invoked only by the winner, at most once; a call that has returned
\* NotFound (no rename failed) lost to a winner, and the winner, once its
\* prompt is read, has invoked the backend exactly once.
C2_AtMostOnceClaim ==
  \A id \in JobIds :
    /\ claims[id] <= 1
    /\ calls[id] <= claims[id]
    /\ Cardinality({w \in WorkerIds : wk[w].job = id /\ wk[w].pc \in AfterClaim}) <= 1
    /\ \A w \in WorkerIds :
         /\ (wk[w].job = id /\ wk[w].pc \in AfterClaim) => claims[id] = 1
         /\ (wk[w].job = id /\ wk[w].pc = "ret" /\ budget.daemon = MaxIoFaults)
              => /\ claims[id] = 1
                 /\ wk[w].res # "NotFound" => calls[id] = 1
         /\ (wk[w].job = id /\ wk[w].pc \in (AfterClaim \ {"read", "ff_write", "ff_mv"}))
              => calls[id] = 1

\* A call has returned NotFound for a job that another call claimed and ran.
C2_Witness ==
  \E w \in WorkerIds :
    /\ wk[w].pc = "ret"
    /\ wk[w].res = "NotFound"
    /\ claims[wk[w].job] = 1
    /\ calls[wk[w].job] = 1

\* C3: a job directory visible under input/ready holds the complete inputs
\* of its submit call: the whole non-empty prompt.txt, type.txt when the
\* type is not text, and every attachment.
C3_ReadyComplete ==
  \A id \in DOMAIN fs["ready"] :
    LET d == fs["ready"][id]
        in == asked[id]
    IN /\ in.prompt # <<>>
       /\ d.prompt = FileOf(in.prompt)
       /\ in.type # "text" => d.type = FileOf(<<in.type>>)
       /\ d.images = in.images

\* A job with an attachment is in ready and the scanner has picked it up.
C3_Witness ==
  \E id \in DOMAIN fs["ready"] :
    /\ asked[id].images > 0
    /\ scan.pc = "submit"
    /\ Head(scan.jobs) = id

\* C4: with the daemon's threads scheduled fairly and no file-system
\* failure, a job whose submit returned ok reaches output or failed, unless
\* the daemon is shut down.
C4_EventuallyTerminal ==
  \A id \in JobIds :
    (id \in okIds) ~> (Terminal(fs, id) \/ srv.shutdown)

\* A submitted job has reached a terminal location of a running daemon.
C4_Witness ==
  \E id \in okIds : Terminal(fs, id) /\ srv.pc = "running"

\* C5: once submit has returned ok for an id, the id is present in ready,
\* processing, output or failed in every later state.
C5_NoLoss ==
  \A id \in okIds :
    LocsOf(fs, id) \cap {"ready", "processing", "output", "failed"} # {}

\* The daemon was stopped (Pool::stop dropped its queue) while a published
\* job had not been claimed.
C5_Witness ==
  \E id \in okIds :
    /\ srv.pc = "stopped"
    /\ id \in DOMAIN fs["ready"]
    /\ claims[id] = 0

\* The ways the locations of an id may change in one step: created in
\* writing, removed from writing by cleanupFailedJob, and the four renames.
AllowedMoves ==
  {<<{}, {"writing"}>>, <<{"writing"}, {}>>,
   <<{"writing"}, {"ready"}>>, <<{"ready"}, {"processing"}>>,
   <<{"processing"}, {"output"}>>, <<{"processing"}, {"failed"}>>}

\* C6: every relocation of a job directory is writing -> ready,
\* ready -> processing, processing -> output or processing -> failed; no job
\* moves back, and none moves between output and failed.
C6_MonotonicMoves ==
  [][\A id \in JobIds :
       LocsOf(fs, id) # LocsOf(fs', id)
         => <<LocsOf(fs, id), LocsOf(fs', id)>> \in AllowedMoves]_vars

\* A job has gone all the way to failed.
C6_Witness ==
  \E id \in okIds : id \in DOMAIN fs["failed"] /\ claims[id] = 1

\* C7: a job directory that is in output or failed stays there with the
\* same contents, whatever the system does next.
C7_TerminalFrozen ==
  [][\A l \in {"output", "failed"} : \A id \in DOMAIN fs[l] :
       id \in DOMAIN fs'[l] /\ fs'[l][id] = fs[l][id]]_vars

\* A finished job is dispatched again: a worker is about to try the claim
\* for an id that is in output.
C7_Witness ==
  \E id \in DOMAIN fs["output"], w \in WorkerIds :
    wk[w].pc = "claim" /\ wk[w].job = id

\* C8: every job directory in output holds result.txt with exactly the
\* text the backend returned for the job, and no result.txt.tmp.
C8_OutputHasResult ==
  \A id \in DOMAIN fs["output"] :
    /\ returned[id].kind = "ok"
    /\ fs["output"][id].result = FileOf(returned[id].text)

\* A job whose backend text has no final newline is in output.
C8_Witness ==
  \E id \in DOMAIN fs["output"] : returned[id].text = <<"a">>

\* C9: Flow::get of a Done job returns a job whose content is exactly the
\* text the backend returned, with no byte added or removed.
C9_RoundTrip ==
  (rd.pc = "ret" /\ rd.op = "get" /\ rd.st = "Done")
    => (rd.found /\ rd.content = returned[rd.id].text)

\* C10: successive Flow::status(id) answers never step back in
\* Missing -> Queued -> Running -> (Done | Failed).
C10_StatusMonotone ==
  rd.st # "none" => Rank(seen[rd.id]) <= Rank(rd.st)

\* The first of output, failed, processing, input/ready that holds id.
FirstHit(f, id) ==
  IF id \in DOMAIN f["output"] THEN "Done"
  ELSE IF id \in DOMAIN f["failed"] THEN "Failed"
  ELSE IF id \in DOMAIN f["processing"] THEN "Running"
  ELSE IF id \in DOMAIN f["ready"] THEN "Queued"
  ELSE "Missing"

\* C11: on a workspace that does not change during the call, Flow::status
\* answers Done, Failed, Running, Queued for the first of output, failed,
\* processing, input/ready that holds the id, and Missing when none does.
C11_StatusFirstHit ==
  (rd.pc = "ret" /\ rd.op = "status") => rd.st = FirstHit(fs, rd.id)

\* status() has answered Queued for a directory that is in input/ready only.
C11_Witness ==
  /\ rd.pc = "ret"
  /\ rd.op = "status"
  /\ rd.st = "Queued"
  /\ LocsOf(fs, rd.id) = {"ready"}

\* C12: once the scanner thread runs, no directory that a previous run left
\* in processing is still there unclaimed: it was renamed back to input/ready
\* before the first scan.
C12_RecoveredBeforeScan ==
  scan.pc # "unstarted"
    => (OldId \notin DOMAIN fs["processing"] \/ claims[OldId] > 0)

\* C13: the Pool queue never holds the same id twice.
C13_NoDuplicateInQueue ==
  \A i, j \in 1..Len(pool.queue) :
    i # j => pool.queue[i] # pool.queue[j]

\* The directories in input/ready that Scanner::scan must skip.
Malformed(f) ==
  {id \in DOMAIN f["ready"] :
     ~f["ready"][id].prompt.exists \/ f["ready"][id].prompt.bytes = <<>>}

\* The ids in a sequence.
Range(q) == {q[i] : i \in 1..Len(q)}

\* C14: a directory in input/ready without prompt.txt, or with an empty one,
\* is never in a scan result, in the Pool queue or in a worker's hands, is
\* never moved, changed or deleted, and a job submitted next to it still
\* reaches output or failed.
C14_MalformedSkipped ==
  /\ [](\A id \in Malformed(fs) :
         /\ id \notin Range(scan.jobs) \cup Range(pool.queue)
         /\ \A w \in WorkerIds : wk[w].pc \in {"wait", "unstarted", "done"} \/ wk[w].job # id)
  /\ [][\A id \in Malformed(fs) :
         id \in DOMAIN fs'["ready"] /\ fs'["ready"][id] = fs["ready"][id]]_vars
  /\ \A id \in JobIds :
       (id \in okIds /\ Malformed(fs) # {}) ~> (Terminal(fs, id) \/ srv.shutdown)

\* One scan found a malformed directory and a well-formed job, and hands
\* the job to the Pool.
C14_Witness ==
  /\ Malformed(fs) # {}
  /\ scan.pc = "submit"
  /\ scan.todo = {}
  /\ Head(scan.jobs) \in okIds

\* The inputs that validation must refuse under the size limit max: no
\* prompt, a prompt over the limit, an attachment that is not a usable image.
Invalid(in, max) ==
  \/ in.prompt = <<>>
  \/ Len(in.prompt) > max
  \/ in.images > 0 /\ in.img # "ok"

\* C15: a submit call with an invalid input returns ok=false and no id and
\* leaves every workspace location as it was, and no submit call with an
\* invalid input ever gets past validation.
C15_RejectedNoEffect ==
  /\ [][(last' # last /\ Invalid(last'.in, last'.max)) =>
         (fs' = fs /\ ~last'.res.ok /\ last'.res.id = NoId /\ last'.id = NoId)]_vars
  /\ [](\A c \in ClientIds :
         client[c].pc # "idle" => ~Invalid(client[c].in, maxBytes[c]))

\* A call with an attachment that is too large was refused next to a
\* published job.
C15_Witness ==
  /\ last.in.img = "too_large"
  /\ ~last.res.ok
  /\ DOMAIN fs["ready"] # {}

\* C16: with M the size limit of the Work object, a returned submit call
\* failed with InvalidContent when its prompt had 0 bytes and with
\* InvalidSize when it had M+1 bytes or more, and passed validation (an id
\* was generated, the result is ok or an I/O error) when it had 1..M bytes
\* and no unusable attachment.
C16_SizeBoundary ==
  last # NoReturn =>
    LET n == Len(last.in.prompt)
        M == last.max
    IN /\ n = 0 => (~last.res.ok /\ last.res.err = "InvalidContent")
       /\ n >= M + 1 => (~last.res.ok /\ last.res.err = "InvalidSize")
       /\ (n \in 1..M /\ (last.in.images = 0 \/ last.in.img = "ok")) =>
            (last.id # NoId /\ last.res.err \in {"None", "IoError"})

\* A prompt of exactly M bytes was submitted with success, M having been set
\* through setMaxSize.
C16_Witness ==
  /\ last.res.ok
  /\ Len(last.in.prompt) = last.max
  /\ last.max # MaxBytes

\* C17: an id that submit generated and whose call has returned without
\* success is in no workspace location, and that call returned IoError.
C17_FailedSubmitLeavesNothing ==
  /\ \A id \in AllIds :
       (/\ asked[id] # NoInput
        /\ id \notin okIds
        /\ \A c \in ClientIds : client[c].id # id) => LocsOf(fs, id) = {}
  /\ (last.id # NoId /\ ~last.res.ok) => last.res.err = "IoError"

\* C18: an id that submit generates was never generated before, by a thread of
\* the same process or by another process, and the id a successful call
\* returns was not returned by an earlier successful call.
C18_DistinctIds ==
  /\ [][\A c \in ClientIds :
          (client[c].pc = "idle" /\ client'[c].pc # "idle") =>
            asked[client'[c].id] = NoInput]_vars
  /\ [][(last' # last /\ last'.res.ok) => last'.res.id \notin okIds]_vars

\* Two threads of one process are inside submit at once, each with the id it
\* generated, and both about to publish.
C18_Witness ==
  /\ pidOf[1] = pidOf[2]
  /\ client[1].pc = "publish"
  /\ client[2].pc = "publish"

\* C19: process(id, w) for an id that is not in input/ready returns NotFound
\* in its first step and changes no workspace location.
C19_NotFoundNoEffect ==
  [][\A w \in WorkerIds :
       (/\ wk[w].pc = "claim"
        /\ wk[w].job \notin DOMAIN fs["ready"]
        /\ wk'[w] # wk[w]) =>
         (wk'[w].pc = "ret" /\ wk'[w].res = "NotFound" /\ fs' = fs)]_vars

\* With no file-system fault so far, a worker got NotFound for a job that
\* another worker had claimed and brought to output.
C19_Witness ==
  /\ budget.daemon = MaxIoFaults
  /\ \E w \in WorkerIds :
       /\ wk[w].pc = "ret"
       /\ wk[w].res = "NotFound"
       /\ wk[w].job \in DOMAIN fs["output"]

\* C20: when process(id, w) returns Failed, the job directory is in failed and
\* not in processing.
C20_FailedIsInFailed ==
  \A w \in WorkerIds :
    (wk[w].pc = "ret" /\ wk[w].res = "Failed") =>
      (/\ wk[w].job \in DOMAIN fs["failed"]
       /\ wk[w].job \notin DOMAIN fs["processing"])

\* C21: when process(id, w) returns SystemError, the job directory is in
\* processing and in neither failed nor output.
C21_SystemErrorStaysInProcessing ==
  \A w \in WorkerIds :
    (wk[w].pc = "ret" /\ wk[w].res = "SystemError") =>
      LocsOf(fs, wk[w].job) = {"processing"}

\* The message of the failure that ended job id: the error string the backend
\* returned, the text of the exception it threw, or the unreadable prompt.
FailureMessage(id) ==
  CASE returned[id].kind = "fail" -> returned[id].text
    [] returned[id].kind = "throw" ->
         <<"Internal processing error: ">> \o returned[id].text
    [] OTHER -> <<"Failed to read prompt file">>

\* C22: every job directory in failed holds error.txt with exactly the
\* message of the failure that ended the job, unless writing error.txt failed.
C22_FailedHasError ==
  \A id \in DOMAIN fs["failed"] :
    fs["failed"][id].error = FileOf(FailureMessage(id)) \/ id \in errLost

\* A job whose backend returned an error is in failed with that error in
\* error.txt.
C22_Witness ==
  \E id \in DOMAIN fs["failed"] :
    /\ returned[id].kind = "fail"
    /\ id \notin errLost
    /\ fs["failed"][id].error = FileOf(returned[id].text)

\* C23: Pool::stop terminates: once it has set the shutdown flag and notified
\* the workers, every worker leaves its loop and stop gets past the joins.
C23_StopTerminates ==
  (srv.pc = "join_workers") ~>
    (srv.pc # "join_workers" /\ \A w \in WorkerIds : wk[w].pc = "done")

\* Pool::stop has returned from its first call.
StopReturned == srv.pc \in {"reset", "stopped", "destroyed"}

\* C24: after the first Pool::stop returned the pool has no live worker, an
\* empty queue and is not running; the second Pool::stop (from the
\* destruction of the pool) changes nothing in the pool, and the second
\* Server::shutdown (from the destruction of the server) changes nothing.
C24_StopIdempotent ==
  /\ [](StopReturned =>
         /\ ~pool.running
         /\ pool.queue = <<>>
         /\ \A w \in WorkerIds : wk[w].pc = "done")
  /\ [][(srv.pc = "reset" /\ srv'.pc # "reset") => (pool' = pool /\ wk' = wk)]_vars
  /\ [][(srv.pc = "stopped" /\ srv'.pc # "stopped") =>
         /\ <<fs, pool, wk, runners, scan>>' = <<fs, pool, wk, runners, scan>>
         /\ srv'.running = srv.running
         /\ srv'.shutdown = srv.shutdown]_vars

\* Both second calls have been made and have returned.
C24_Witness == srv.pc = "destroyed" /\ pool.shutdown

\* C25: once Pool::stop has returned, the queue of the pool is empty, also
\* when Pool::submit runs in another thread while stop runs.
C25_QueueEmptyAfterStop ==
  app.stop = "returned" => pool.queue = <<>>

\* C26: a worker whose processor function failed for a job does not end: it
\* goes back to wait for the next queue entry whatever process() returned,
\* and no worker thread has ended while the pool runs, so W workers are live
\* from Pool::start until Pool::stop.
C26_WorkersSurviveFailure ==
  /\ [](pool.running =>
          \A w \in WorkerIds : wk[w].pc \notin {"unstarted", "done", "terminate"})
  /\ []((\E w \in WorkerIds : wk[w].pc \in {"done", "terminate"}) => pool.shutdown)
  /\ [][\A w \in WorkerIds :
          (wk[w].pc = "ret" /\ wk'[w].pc # "ret") => wk'[w].pc = "wait"]_vars

\* A job has failed and every worker, the one that ran it too, waits for the
\* next entry of the running pool.
C26_Witness ==
  /\ pool.running
  /\ \E id \in AllIds : id \in DOMAIN fs["failed"] /\ returned[id] # NoRun
  /\ \A w \in WorkerIds : wk[w].pc = "wait"

\* Positions of a worker inside Processor::process.
InProcess == {"claim"} \cup AfterClaim

\* Server::shutdown has returned.
ShutdownReturned == srv.pc \in {"stopped", "destroyed"}

\* C27: shutdown never interrupts a job in progress: a worker inside
\* Processor::process stays in that call until it returns, shutdown flag set
\* or not; when Server::shutdown has returned, the scanner thread and every
\* worker have ended, no process call is executing, and no id is claimed
\* from then on.
C27_ShutdownWaitsForJobs ==
  /\ [][\A w \in WorkerIds :
          wk[w].pc \in InProcess => wk'[w].pc \in InProcess \cup {"ret"}]_vars
  /\ [](ShutdownReturned =>
          /\ scan.pc \in {"done", "unstarted"}
          /\ \A w \in WorkerIds : wk[w].pc \in {"done", "unstarted"})
  /\ [][ShutdownReturned => claims' = claims]_vars

\* Both shutdown flags are set while a worker is inside Runner::run.
C27_Witness ==
  /\ srv.shutdown
  /\ pool.shutdown
  /\ \E w \in WorkerIds : wk[w].pc = "run"

\* C28: in Server::start every one of the W Runners exists before the first
\* worker thread is started; when initializeRunners fails, start returns
\* false and neither a worker thread nor the scanner thread is started, then
\* or later.
C28_RunnersBeforeWorkers ==
  /\ [][(\E w \in WorkerIds : wk[w].pc = "unstarted" /\ wk'[w].pc # "unstarted")
          => runners = WorkerIds]_vars
  /\ [](srv.pc = "start_failed" =>
          /\ ~srv.running
          /\ ~pool.running
          /\ scan.pc = "unstarted"
          /\ \A w \in WorkerIds : wk[w].pc = "unstarted")
  /\ [][srv.pc = "start_failed" => (wk' = wk /\ scan' = scan)]_vars

\* initializeRunners failed after it had created some of the Runners, and a
\* client has put a job into input/ready.
C28_Witness ==
  /\ srv.pc = "start_failed"
  /\ runners # {}
  /\ runners # WorkerIds
  /\ DOMAIN fs["ready"] # {}

\* The worker threads that have been started.
Started == {w \in WorkerIds : wk[w].pc # "unstarted"}

\* C29: the worker ids the threads pass to Processor::process lie in [0, W),
\* no two threads have the same one, a thread keeps its id for the lifetime
\* of the pool, and a thread inside process() finds the Runner of its id in
\* the map, so that a Runner is used by the one thread whose id is its key.
C29_OneThreadPerRunner ==
  /\ [](\A w \in Started :
          /\ workerId[w] \in 0..(NumWorkers - 1)
          /\ wk[w].pc # "terminate"
          /\ wk[w].pc \in InProcess => workerId[w] \in runners
          /\ \A v \in Started : v # w => workerId[v] # workerId[w])
  /\ [][\A w \in Started : workerId'[w] = workerId[w]]_vars

\* Two workers are inside Processor::process at the same time, one of them
\* inside Runner::run, each with the Runner of its own id.
C29_Witness ==
  \E w, v \in WorkerIds :
    /\ w # v
    /\ wk[w].pc = "run"
    /\ wk[v].pc \in InProcess
    /\ workerId[w] # workerId[v]
    /\ {workerId[w], workerId[v]} \subseteq runners

\* C30: the Runners are destroyed only when the scanner thread and every
\* worker thread have ended, and no worker is ever inside Runner::run
\* without its Runner.
C30_RunnersOutliveThreads ==
  /\ [][(\E r \in runners : r \notin runners') =>
          /\ scan.pc \in {"done", "unstarted"}
          /\ \A w \in WorkerIds : wk[w].pc \in {"done", "unstarted"}]_vars
  /\ [](\A w \in WorkerIds : wk[w].pc = "run" => workerId[w] \in runners)

\* Server::shutdown has destroyed the Runners of a daemon that processed a
\* job.
C30_Witness ==
  /\ srv.pc = "stopped"
  /\ runners = {}
  /\ \E id \in JobIds : id \in DOMAIN fs["output"] /\ returned[id] # NoRun

\* C31: finalization is visible to a reader as a whole: a Flow::get(id) that
\* follows a Flow::status(id) answer of Done, or that finds the job Done
\* itself, returns a job (not None) with status Done and the content of the
\* complete result.txt, never that of a file still being written.
C31_DoneIsComplete ==
  (rd.pc = "ret" /\ rd.op = "get" /\ (rd.st = "Done" \/ seen[rd.id] = "Done"))
    => /\ rd.st = "Done"
       /\ rd.found
       /\ rd.content = readResultContent(returned[rd.id].text)

\* A get that follows a status answer of Done returns the result.
C31_Witness ==
  /\ rd.pc = "ret"
  /\ rd.op = "get"
  /\ seen[rd.id] = "Done"
  /\ rd.found
  /\ rd.content # <<>>

\* C32: when the claim rename fails although input/ready/<id> exists (an
\* I/O or permission error), process() returns SystemError, not NotFound.
\* A job is never put back into input/ready, so a worker that has returned
\* while its job is still there is one whose claim rename failed that way.
C32_ClaimErrorIsSystemError ==
  \A w \in WorkerIds :
    (wk[w].pc = "ret" /\ wk[w].job \in DOMAIN fs["ready"])
      => wk[w].res = "SystemError"

\* The steps of finalizeSuccess.
InFinalizeSuccess == {"fs_open", "fs_write", "fs_mv_file", "fs_mv_dir"}

\* C33: when a step of finalizeSuccess fails after a successful backend run
\* (writing result.txt.tmp, renaming it, renaming the job directory),
\* process() returns SystemError and the job directory is in processing, not
\* in failed and not in output, also once the call has returned.
C33_FailedFinalizeStays ==
  /\ [][\A w \in WorkerIds :
          (wk[w].pc \in InFinalizeSuccess /\ wk'[w].pc \notin InFinalizeSuccess
             /\ ~(wk'[w].pc = "ret" /\ wk'[w].res = "Success"))
          => /\ wk'[w].pc = "ret"
             /\ wk'[w].res = "SystemError"
             /\ LocsOf(fs', wk[w].job) = {"processing"}]_vars
  /\ [](\A w \in WorkerIds :
          (wk[w].pc = "ret" /\ wk[w].res = "SystemError"
             /\ returned[wk[w].job].kind = "ok")
          => LocsOf(fs, wk[w].job) = {"processing"})

\* process() has returned SystemError for a job whose backend run was
\* successful and whose result.txt.tmp was left behind.
C33_Witness ==
  \E w \in WorkerIds :
    /\ wk[w].pc = "ret"
    /\ wk[w].res = "SystemError"
    /\ returned[wk[w].job].kind = "ok"
    /\ wk[w].job \in DOMAIN fs["processing"]
    /\ fs["processing"][wk[w].job].tmp.exists

\* The job directory of id, wherever it is, has no prompt.txt or an empty
\* one.
PromptLost(id) ==
  \E l \in LocsOf(fs, id) :
    ~fs[l][id].prompt.exists \/ fs[l][id].prompt.bytes = <<>>

\* C34: when prompt.txt is missing or empty after a successful claim,
\* process() does not invoke the backend, writes error.txt with the message
\* "Failed to read prompt file", moves the job to failed and returns Failed.
C34_MissingPromptFails ==
  \A w \in WorkerIds :
    (wk[w].pc = "ret" /\ wk[w].res # "NotFound" /\ PromptLost(wk[w].job))
      => /\ calls[wk[w].job] = 0
         /\ wk[w].res = "Failed"
         /\ LocsOf(fs, wk[w].job) = {"failed"}
         /\ fs["failed"][wk[w].job].error = FileOf(<<"Failed to read prompt file">>)

\* C35: every inference error makes the job end in failed and never in
\* output: a job whose backend run met an error (llama_decode failing during
\* the generation included) is not in output.
C35_InferenceErrorNotInOutput ==
  \A id \in AllIds :
    returned[id].ev \in {"decode", "setup", "throw"}
      => id \notin DOMAIN fs["output"]

\* The workers that are inside Runner::run for job id.
Running(id) == {w \in WorkerIds : wk[w].pc = "run" /\ wk[w].job = id}

\* C36: the backend runs for a job only after the claim rename of that job
\* succeeded and only while the job directory is in processing; the rename
\* to output or failed is made when no backend call for the job is
\* executing, and after the call has returned when one was made.
C36_ClaimRunFinalize ==
  /\ [](\A id \in AllIds :
          Running(id) # {} => (claims[id] >= 1 /\ LocsOf(fs, id) = {"processing"}))
  /\ [][\A id \in AllIds :
          (id \in DOMAIN fs["processing"] /\ Terminal(fs', id))
            => /\ Running(id) = {}
               /\ calls[id] > 0 => returned[id] # NoRun]_vars

\* process() has returned Success for a job that was claimed once and run
\* once, and the job is in output.
C36_Witness ==
  \E w \in WorkerIds :
    /\ wk[w].pc = "ret"
    /\ wk[w].res = "Success"
    /\ claims[wk[w].job] = 1
    /\ calls[wk[w].job] = 1
    /\ wk[w].job \in DOMAIN fs["output"]

\* C37: whatever the daemon does between and during the calls, Flow::status
\* never answers Queued for an id for which it has answered Running, Done or
\* Failed, and never Running for one for which it has answered Done or
\* Failed.
C37_NoEarlierState ==
  /\ rd.st = "Queued" => seen[rd.id] \notin {"Running", "Done", "Failed"}
  /\ rd.st = "Running" => seen[rd.id] \notin {"Done", "Failed"}

\* status() answers Running for a job for which it answered Queued before.
C37_Witness ==
  /\ rd.pc = "ret"
  /\ rd.st = "Running"
  /\ seen[rd.id] = "Queued"

\* The workers inside mtmd_helper_eval_chunks.
Encoding == {w \in WorkerIds : vis.pc[w] = "encode"}

\* C38: at most one worker at a time executes the vision encoding, and
\* vision_encoding_mutex_ is held by a worker that is executing it and by
\* nobody else: a worker whose encoding has ended, well or badly, has
\* released it.
C38_VisionSerialized ==
  /\ Cardinality(Encoding) <= 1
  /\ vis.holder = Encoding

\* A worker is encoding after the encoding of another worker's job failed.
C38_Witness ==
  \E w, v \in WorkerIds :
    /\ w # v
    /\ vis.res[w] = "Failed to eval multimodal prompt"
    /\ vis.pc[v] = "encode"

\* C39: for an id that is in no location of the workspace Flow::get returns
\* no job and flw exits with code 1; flw exits with code 2 only for a job
\* that exists and is Queued or Running.
C39_MissingIsNotFound ==
  (rd.pc = "ret" /\ rd.op = "get")
    => /\ LocsOf(fs, rd.id) = {} => (~rd.found /\ flwExit(rd.found, rd.st) = 1)
       /\ flwExit(rd.found, rd.st) = 2 => rd.st \in {"Queued", "Running"}


====
